---------------------------- MODULE Spec2Model ----------------------------
(***************************************************************************)
(* Client-side session and conversation-state manager of The People's      *)
(* Agent front end: the Session Store (AuthContext), the Route Guard       *)
(* (ProtectedWrapper) and the Conversation Manager (ChatPage).             *)
(*                                                                         *)
(* The browser runs one handler at a time; the only suspension points are  *)
(* the awaited network round trips.  Each action below is therefore one    *)
(* run-to-completion segment of a handler: from its call, or from the      *)
(* arrival of the response it awaits, up to its next await or its return.  *)
(***************************************************************************)
EXTENDS Integers, Sequences, FiniteSets, TLC

VARIABLES
    user,           \* AuthProvider state `user` (null or the profile record)
    token,          \* AuthProvider state `token`
    loading,        \* AuthProvider state `loading`
    access_token,   \* localStorage["access_token"]
    refresh_token,  \* localStorage["refresh_token"]
    restored,       \* the mount effect of AuthProvider has run
    pathname,       \* the current view (usePathname)
    calls,          \* in-flight Session Store calls, by slot
    last,           \* the handler segment that ran last, with what it signalled
    messages,       \* ChatPage state `messages`: the live transcript
    input,          \* ChatPage state `input`
    chatLoading,    \* ChatPage state `loading`
    chatHistory,    \* ChatPage state `chatHistory`: the loaded history
    showHistory,    \* ChatPage state `showHistory`
    sends,          \* the calls of send, by slot, in flight or done
    load,           \* the loadChatHistory call of ChatPage's effect
    serverHistory,  \* the remote service's persisted record, oldest first
    clock,          \* a message's timestamp, the time now, and the rendered label
    router          \* the router: whether a push commits later, and the pushed view

sessionVars == <<user, token, loading, access_token, refresh_token>>

chatVars == <<messages, input, chatLoading, chatHistory, showHistory, sends,
              load, serverHistory>>

vars == <<user, token, loading, access_token, refresh_token, restored,
          pathname, calls, last, messages, input, chatLoading, chatHistory,
          showHistory, sends, load, serverHistory, clock, router>>

-----------------------------------------------------------------------------
(* Values *)

Null == "null"

\* The views of the application; "/auth" is the only public one.
Paths == {"/auth", "/", "/chat", "/profile"}

\* Bearer credentials the remote service hands out, and the account of each.
AccessTokens == {"a1", "a2"}

RefreshOf(a) == IF a = "a1" THEN "r1" ELSE "r2"

UserOf(a) == IF a = "a1" THEN "u1" ELSE "u2"

Users == {UserOf(a) : a \in AccessTokens}

\* The `detail` member of an error body: absent, empty, or a message.
Details == {Null, "", "Invalid email or password"}

\* Number of Session Store calls that may be in flight together.
MaxCalls == 2

Slots == 1..MaxCalls

Idle == [op |-> "idle", pc |-> "idle", tok |-> Null, ev |-> <<>>]

\* The record of a handler segment: which operation, which segment of it,
\* how it ended, the message of the error it threw, the views it pushed to
\* the router, and the operation's event log so far.
Step(op, phase, outcome, err, nav, ev) ==
    [op |-> op, phase |-> phase, outcome |-> outcome, err |-> err,
     nav |-> nav, ev |-> ev]

Session == [user |-> user, token |-> token, loading |-> loading,
            access_token |-> access_token, refresh_token |-> refresh_token]

SetSession(s) ==
    /\ user' = s.user
    /\ token' = s.token
    /\ loading' = s.loading
    /\ access_token' = s.access_token
    /\ refresh_token' = s.refresh_token

-----------------------------------------------------------------------------
(* Session Store: AuthContext *)

ProfileResponses == {"ok", "rejected", "throw"}

\* fetchProfile from the arrival of the profile response to its return: a
\* success response sets user, a non-success one drops the token from memory
\* and from storage, a thrown fetch changes nothing; `finally` clears loading.
FetchProfile_NoFinally(s, authToken, res) ==
    CASE res = "ok" -> [s EXCEPT !.user = UserOf(authToken), !.loading = FALSE]
      [] res = "rejected" ->
            [s EXCEPT !.access_token = Null, !.refresh_token = Null,
                      !.token = Null, !.loading = FALSE]
      [] OTHER -> s

FetchProfile_KeepsStored(s, authToken, res) ==
    CASE res = "ok" -> [s EXCEPT !.user = UserOf(authToken), !.loading = FALSE]
      [] res = "rejected" -> [s EXCEPT !.token = Null, !.loading = FALSE]
      [] OTHER -> [s EXCEPT !.loading = FALSE]

FetchProfile_ThrowInvalidates(s, authToken, res) ==
    LET t == CASE res = "ok" -> [s EXCEPT !.user = UserOf(authToken)]
               [] OTHER ->
                     [s EXCEPT !.access_token = Null, !.refresh_token = Null,
                               !.token = Null]
    IN  [t EXCEPT !.loading = FALSE]

FetchProfile(s, authToken, res) ==
    LET t == CASE res = "ok" -> [s EXCEPT !.user = UserOf(authToken)]
               [] res = "rejected" ->
                     [s EXCEPT !.access_token = Null, !.refresh_token = Null,
                               !.token = Null]
               [] OTHER -> s
    IN  [t EXCEPT !.loading = FALSE]

\* login/signup after a successful credential response, up to the call of
\* fetchProfile: both tokens persisted, the access token set in memory.
StoreTokens_AccessOnly(s, data) ==
    [s EXCEPT !.access_token = data.access_token,
              !.token = data.access_token]

StoreTokens(s, data) ==
    [s EXCEPT !.access_token = data.access_token,
              !.refresh_token = data.refresh_token,
              !.token = data.access_token]

\* The state changes of logout.
ClearSession_KeepsRefresh(s) ==
    [s EXCEPT !.access_token = Null, !.token = Null, !.user = Null]

ClearSession(s) ==
    [s EXCEPT !.access_token = Null, !.refresh_token = Null,
              !.token = Null, !.user = Null]

\* JavaScript truthiness of a string-or-absent value, as `||` tests it.
Falsy(v) == v = Null \/ v = ""

Fallback(op) == IF op = "login" THEN "Login failed" ELSE "Signup failed"

\* The message of the error login/signup throws on a non-success response:
\* `await res.json()` rejects with the parser's SyntaxError when the body is
\* not JSON; otherwise new Error(error.detail || fallback).
ParseErrorMessage == "Unexpected token"

ThrownMessage(op, res) ==
    IF ~res.json THEN ParseErrorMessage
    ELSE IF Falsy(res.detail) THEN Fallback(op) ELSE res.detail

\* The views login/signup push between the credential response and the
\* call of fetchProfile: none, the push follows `await fetchProfile(...)`.
NavAfterCredentials_PushFirst(op) == <<"/chat">>

NavAfterCredentials(op) == <<>>

\* What follows `await fetchProfile(...)` in the caller: login and signup
\* push the conversation view, the mount effect does nothing more.
AfterProfile(op) == IF op \in {"login", "signup"} THEN <<"/chat">> ELSE <<>>

NavEvents(nav) == [i \in 1..Len(nav) |-> "push_chat"]

FreeSlots == {i \in Slots : calls[i] = Idle}

CredResponses ==
    {[kind |-> "ok", access_token |-> a, refresh_token |-> RefreshOf(a),
      json |-> TRUE, detail |-> Null] : a \in AccessTokens}
    \cup {[kind |-> "rejected", access_token |-> Null, refresh_token |-> Null,
           json |-> TRUE, detail |-> d] : d \in Details}
    \cup {[kind |-> "rejected", access_token |-> Null, refresh_token |-> Null,
           json |-> FALSE, detail |-> Null]}
    \cup {[kind |-> "throw", access_token |-> Null, refresh_token |-> Null,
           json |-> FALSE, detail |-> Null]}

\* Where a sequence of pushes leaves the router.
Pushed(nav, path) == IF nav = <<>> THEN path ELSE nav[Len(nav)]

\* The router.  router.push(view) starts a navigation; usePathname gives the
\* new view once the navigation has committed.  With router.deferred the
\* commit is a later step (Commit) and the latest push is the one that
\* commits; without it the commit is taken together with the push, which is
\* the case where nothing runs between the two.
RouterAtOnce == [deferred |-> FALSE, pending |-> Null]

RouterDeferred == [deferred |-> TRUE, pending |-> Null]

\* The pushes nav of a handler segment.
Route(nav) ==
    IF nav = <<>>
    THEN UNCHANGED <<pathname, router>>
    ELSE IF router.deferred
         THEN /\ router' = [router EXCEPT !.pending = Pushed(nav, pathname)]
              /\ UNCHANGED pathname
         ELSE /\ pathname' = Pushed(nav, pathname)
              /\ UNCHANGED router

\* The pushed navigation commits.
Commit ==
    /\ router.pending # Null
    /\ pathname' = router.pending
    /\ router' = [router EXCEPT !.pending = Null]
    /\ last' = Step("router", "commit", "none", Null, <<>>, <<>>)
    /\ UNCHANGED <<sessionVars, restored, calls, chatVars, clock>>

LowestFree == CHOOSE i \in FreeSlots : \A j \in FreeSlots : i <= j

\* The mount effect of AuthProvider (restore).
Restore ==
    /\ UNCHANGED <<clock, router>>
    /\ ~restored
    /\ restored' = TRUE
    /\ IF access_token # Null
       THEN /\ token' = access_token
            /\ calls' = [calls EXCEPT ![1] =
                    [op |-> "restore", pc |-> "profile", tok |-> access_token,
                     ev |-> <<"setToken", "fetchProfile_issued">>]]
            /\ UNCHANGED loading
       ELSE /\ loading' = FALSE
            /\ UNCHANGED <<token, calls>>
    /\ last' = Step("restore", "effect", "none", Null, <<>>, <<>>)
    /\ UNCHANGED <<user, access_token, refresh_token, pathname, chatVars>>

\* handleSubmit of the sign-in view calling login or signup, up to the
\* awaited credential request.  The view is mounted only on "/auth" and only
\* once loading is false.  Its own disabled-while-submitting flag is local
\* state that a remount resets, so it does not bound the calls in flight.
Submit(op) ==
    /\ UNCHANGED <<clock, router>>
    /\ restored /\ ~loading /\ pathname = "/auth"
    /\ FreeSlots # {}
    /\ calls' = [calls EXCEPT ![LowestFree] =
            [op |-> op, pc |-> "cred", tok |-> Null,
             ev |-> <<"credentials_issued">>]]
    /\ last' = Step(op, "call", "none", Null, <<>>, <<"credentials_issued">>)
    /\ UNCHANGED <<sessionVars, restored, pathname, chatVars>>

\* login/signup from the arrival of the credential response: a non-success
\* response or a failed fetch throws to handleSubmit; a success stores the
\* tokens and calls fetchProfile, which runs up to its awaited request.
CredentialsResponse(i, res) ==
    /\ UNCHANGED clock
    /\ calls[i].pc = "cred"
    /\ LET op == calls[i].op IN
       \/ /\ res.kind = "ok"
          /\ LET nav == NavAfterCredentials(op)
                 ev == calls[i].ev \o <<"setItem_access", "setItem_refresh",
                          "setToken", "fetchProfile_issued">> \o NavEvents(nav)
             IN  /\ SetSession(StoreTokens(Session, res))
                 /\ calls' = [calls EXCEPT ![i] =
                         [op |-> op, pc |-> "profile",
                          tok |-> res.access_token, ev |-> ev]]
                 /\ Route(nav)
                 /\ last' = Step(op, "credentials", "ok", Null, nav, ev)
       \/ /\ res.kind = "rejected"
          /\ calls' = [calls EXCEPT ![i] = Idle]
          /\ last' = Step(op, "credentials", "rejected",
                          ThrownMessage(op, res), <<>>, calls[i].ev)
          /\ UNCHANGED <<sessionVars, pathname, router>>
       \/ /\ res.kind = "throw"
          /\ calls' = [calls EXCEPT ![i] = Idle]
          /\ last' = Step(op, "credentials", "throw", "Failed to fetch",
                          <<>>, calls[i].ev)
          /\ UNCHANGED <<sessionVars, pathname, router>>
    /\ UNCHANGED <<restored, chatVars>>

\* fetchProfile from the arrival of the profile response, and what its
\* caller does after the await.
ProfileResponse(i, res) ==
    /\ UNCHANGED clock
    /\ calls[i].pc = "profile"
    /\ LET op == calls[i].op
           nav == AfterProfile(op)
       IN  /\ SetSession(FetchProfile(Session, calls[i].tok, res))
           /\ Route(nav)
           /\ calls' = [calls EXCEPT ![i] = Idle]
           /\ last' = Step(op, "profile", res, Null, nav,
                    calls[i].ev \o <<"fetchProfile_done">> \o NavEvents(nav))
    /\ UNCHANGED <<restored, chatVars>>

\* logout, called from the Sidebar or the profile view, which are mounted
\* only once loading is false, with a user, on a protected view.
Logout ==
    /\ UNCHANGED clock
    /\ restored /\ ~loading /\ user # Null /\ pathname # "/auth"
    /\ SetSession(ClearSession(Session))
    /\ Route(<<"/auth">>)
    /\ last' = Step("logout", "call", "none", Null, <<"/auth">>, <<>>)
    /\ UNCHANGED <<restored, calls, chatVars>>

-----------------------------------------------------------------------------
(* Route Guard: ProtectedWrapper *)

PublicPaths == {"/auth"}

\* The redirect of the guard's effect: "none", or the view it pushes.
GuardDecision_IgnoresLoading(u, l, p) ==
    IF u = Null /\ p \notin PublicPaths THEN "/auth"
    ELSE IF u # Null /\ p \in PublicPaths THEN "/"
    ELSE "none"

GuardDecision(u, l, p) ==
    IF ~l
    THEN IF u = Null /\ p \notin PublicPaths THEN "/auth"
         ELSE IF u # Null /\ p \in PublicPaths THEN "/"
         ELSE "none"
    ELSE "none"

\* One run of the guard's effect.
GuardEffect ==
    /\ UNCHANGED clock
    /\ LET d == GuardDecision(user, loading, pathname)
           nav == IF d = "none" THEN <<>> ELSE <<d>>
       IN  /\ Route(nav)
           /\ last' = Step("guard", "effect", d, Null, nav, <<>>)
    /\ UNCHANGED <<sessionVars, restored, calls, chatVars>>

\* A navigation of the user's: a Sidebar link, or the browser's back and
\* forward buttons.
Navigate(p) ==
    /\ UNCHANGED clock
    /\ restored
    /\ p # pathname
    /\ Route(<<p>>)
    /\ last' = Step("navigate", "call", "none", Null, <<>>, <<>>)
    /\ UNCHANGED <<sessionVars, restored, calls, chatVars>>

-----------------------------------------------------------------------------
(* Conversation Manager: ChatPage *)

\* Text is a sequence of characters; " " stands for the white space that
\* String.prototype.trim removes.
Chars == {" ", "h"}

Whitespace == {" "}

\* What the user types: nothing, white space only, a text with white space
\* around it.
Inputs == {<<>>, <<" ", " ">>, <<" ", "h">>}

RECURSIVE TrimStart(_)
TrimStart(t) ==
    IF t = <<>> THEN <<>>
    ELSE IF Head(t) \in Whitespace THEN TrimStart(Tail(t)) ELSE t

RECURSIVE TrimEnd(_)
TrimEnd(t) ==
    IF t = <<>> THEN <<>>
    ELSE IF t[Len(t)] \in Whitespace THEN TrimEnd(SubSeq(t, 1, Len(t) - 1))
    ELSE t

Trim(t) == TrimEnd(TrimStart(t))

RECURSIVE Reverse(_)
Reverse(q) == IF q = <<>> THEN <<>> ELSE Append(Reverse(Tail(q)), Head(q))

Min(a, b) == IF a <= b THEN a ELSE b

Max(a, b) == IF a >= b THEN a ELSE b

\* Array.prototype.slice(start, end) for 0 <= start, end <= length: the
\* elements at the 0-based indices start .. end-1.
Slice(q, start, end) == SubSeq(q, start + 1, end)

\* A message without id (composed locally) has the id NoId; a member that is
\* undefined in JavaScript has the value Undefined.
NoId == 0

Undefined == <<"undefined">>

Message(id, role, content, sources) ==
    [id |-> id, role |-> role, content |-> content, sources |-> sources]

\* The synthetic greeting the transcript starts with (no id).
Greeting == Message(NoId, "assistant", <<"greeting">>, <<>>)

\* The optimistic user message of send: role and content only.
UserMessage(text) == Message(NoId, "user", text, Undefined)

\* The assistant message built from a parsed chat body: data.answer and
\* data.sources, whatever the body holds (Undefined when the body lacks the member).
ReplyMessage(res) == Message(NoId, "assistant", res.answer, res.sources)

\* The synthetic assistant message of send's catch block.
ErrorMessage ==
    Message(NoId, "assistant", <<"Error connecting to secure backend.">>, Undefined)

\* Number of send calls of a run; each takes a slot and keeps it.
MaxSends == 2

SendSlots == 1..MaxSends

IdleSend == [pc |-> "idle", tok |-> Null, text |-> <<>>, snap |-> <<>>,
             ev |-> <<>>]

DoneSend == [pc |-> "done", tok |-> Null, text |-> <<>>, snap |-> <<>>,
             ev |-> <<>>]

\* The loadChatHistory call of ChatPage's effect, and what the latest
\* successful loadChatHistory call (of the effect or of a send) was answered:
\* has, prev.
IdleLoad == [pc |-> "idle", tok |-> Null, snap |-> <<>>, has |-> FALSE,
             prev |-> <<>>]

ChatInit ==
    /\ messages = <<Greeting>>
    /\ input = <<>>
    /\ chatLoading = FALSE
    /\ chatHistory = <<>>
    /\ showHistory = FALSE
    /\ sends = [i \in SendSlots |-> IdleSend]
    /\ load = IdleLoad
    /\ serverHistory = <<>>

\* The answers of the chat endpoint: a failed fetch, or a status with a body
\* that parses as JSON or does not.  A success body holds answer and sources;
\* an error body ({detail}) holds neither.
Answer == <<"answer">>

ChatResponses ==
    {[kind |-> "throw", status |-> 0, json |-> FALSE, answer |-> Undefined,
      sources |-> Undefined],
     [kind |-> "response", status |-> 401, json |-> TRUE, answer |-> Undefined,
      sources |-> Undefined],
     [kind |-> "response", status |-> 200, json |-> TRUE, answer |-> Answer,
      sources |-> <<"url">>],
     [kind |-> "response", status |-> 200, json |-> FALSE, answer |-> Undefined,
      sources |-> Undefined],
     [kind |-> "response", status |-> 500, json |-> TRUE, answer |-> Undefined,
      sources |-> Undefined],
     [kind |-> "response", status |-> 500, json |-> FALSE, answer |-> Undefined,
      sources |-> Undefined]}

\* How a chat answer is named in `last`.
ResClass(res) ==
    IF res.kind = "throw" THEN "throw"
    ELSE IF res.status = 401 THEN "401"
    ELSE IF res.status = 200
         THEN (IF res.json THEN "200_json" ELSE "200_nojson")
         ELSE (IF res.json THEN "500_json" ELSE "500_nojson")

\* The guard of send: `if (!input.trim() || !token) return`.
SendIsNoop_NoTrim(inp, tok) == inp = <<>> \/ tok = Null

SendIsNoop(inp, tok) == Trim(inp) = <<>> \/ tok = Null

\* send from the arrival of the chat answer: what it appends to the
\* transcript, what it pushes, and whether it goes on to loadChatHistory.
\* Only the status 401 is tested; any other body that parses is used as a
\* reply; a failed fetch or a body that does not parse lands in catch.
SendOutcome_401Throws(res) ==
    IF res.kind = "throw" \/ res.status = 401 \/ ~res.json
    THEN [append |-> <<ErrorMessage>>,
          nav |-> IF res.kind # "throw" /\ res.status = 401
                  THEN <<"/auth">> ELSE <<>>,
          reload |-> FALSE, err |-> Null]
    ELSE [append |-> <<ReplyMessage(res)>>, nav |-> <<>>, reload |-> TRUE,
          err |-> Null]

SendOutcome_NoReload(res) ==
    IF res.kind = "throw"
    THEN [append |-> <<ErrorMessage>>, nav |-> <<>>, reload |-> FALSE,
          err |-> Null]
    ELSE IF res.status = 401
    THEN [append |-> <<>>, nav |-> <<"/auth">>, reload |-> FALSE, err |-> Null]
    ELSE IF ~res.json
    THEN [append |-> <<ErrorMessage>>, nav |-> <<>>, reload |-> FALSE,
          err |-> Null]
    ELSE [append |-> <<ReplyMessage(res)>>, nav |-> <<>>, reload |-> FALSE,
          err |-> Null]

SendOutcome(res) ==
    IF res.kind = "throw"
    THEN [append |-> <<ErrorMessage>>, nav |-> <<>>, reload |-> FALSE,
          err |-> Null]
    ELSE IF res.status = 401
    THEN [append |-> <<>>, nav |-> <<"/auth">>, reload |-> FALSE, err |-> Null]
    ELSE IF ~res.json
    THEN [append |-> <<ErrorMessage>>, nav |-> <<>>, reload |-> FALSE,
          err |-> Null]
    ELSE [append |-> <<ReplyMessage(res)>>, nav |-> <<>>, reload |-> TRUE,
          err |-> Null]

\* The session as send leaves it: send reads the token and, on a 401, only
\* pushes the sign-in view; it calls neither logout nor localStorage.
SendSession_401Invalidates(s, res) ==
    IF res.kind # "throw" /\ res.status = 401 THEN ClearSession(s) ELSE s

SendSession(s, res) == s

\* `finally` of send: setLoading(false) when send returns, by whatever path
\* (nav: what the returning segment pushed; cur: the flag before).
Finally_SkippedByReturn(nav, cur) == IF nav # <<>> THEN cur ELSE FALSE

Finally(nav, cur) == FALSE

\* The remote service persists the exchange of a chat it answers with 200.
Persist(h, text, res) ==
    IF res.kind = "response" /\ res.status = 200 /\ res.json
    THEN h \o <<Message(Len(h) + 1, "user", text, <<>>),
                Message(Len(h) + 2, "assistant", res.answer, res.sources)>>
    ELSE h

\* The body of GET /chat/history: the record, newest first.
HistoryBody(h) == Reverse(h)

\* loadChatHistory on a success response: each entry mapped to a Message
\* (sources defaulting to []), the array reversed to oldest first.
MapHistory(data) ==
    [i \in 1..Len(data) |->
        Message(data[i].id, data[i].role, data[i].content,
                IF data[i].sources = Undefined THEN <<>> ELSE data[i].sources)]

LoadedHistory(data) == Reverse(MapHistory(data))

HistoryResponses == {"ok", "rejected", "throw"}

\* loadChatHistory from the arrival of the history answer: the loaded history
\* it leaves and the error it throws to its caller (none: a non-success
\* status is skipped, a failed fetch is caught and logged).
LoadChatHistory_Throws(cur, res, body) ==
    [history |-> IF res = "ok" THEN LoadedHistory(body) ELSE cur,
     err |-> IF res = "throw" THEN "Failed to fetch" ELSE Null]

LoadChatHistory_Appends(cur, res, body) ==
    [history |-> IF res = "ok" THEN cur \o LoadedHistory(body) ELSE cur,
     err |-> Null]

LoadChatHistory(cur, res, body) ==
    [history |-> IF res = "ok" THEN LoadedHistory(body) ELSE cur,
     err |-> Null]

\* The latest successful answer, kept in `load`.
Answered(l, res, body) ==
    IF res = "ok" THEN [l EXCEPT !.has = TRUE, !.prev = body] ELSE l

\* ChatPage renders (and its handlers can be called) once the guard shows
\* the view to a user.
ChatRendered == ~loading /\ user # Null /\ pathname = "/chat"

FreeSends == {i \in SendSlots : sends[i].pc = "idle"}

LowestFreeSend == CHOOSE i \in FreeSends : \A j \in FreeSends : i <= j

\* onChange of the input box.
SetInput(t) ==
    /\ UNCHANGED <<clock, router>>
    /\ ChatRendered
    /\ t # input
    /\ input' = t
    /\ last' = Step("setInput", "call", "none", Null, <<>>, <<>>)
    /\ UNCHANGED <<sessionVars, restored, pathname, calls, messages,
                   chatLoading, chatHistory, showHistory, sends, load,
                   serverHistory>>

\* send, from its call to the awaited chat request.  The Enter key calls it
\* whatever `loading` is.
Send ==
    /\ UNCHANGED <<clock, router>>
    /\ ChatRendered
    /\ IF SendIsNoop(input, token)
       THEN /\ last' = Step("send", "call", "noop", Null, <<>>, <<>>)
            /\ UNCHANGED <<messages, input, chatLoading, sends>>
       ELSE /\ FreeSends # {}
            /\ messages' = Append(messages, UserMessage(input))
            /\ input' = <<>>
            /\ chatLoading' = TRUE
            /\ sends' = [sends EXCEPT ![LowestFreeSend] =
                    [pc |-> "chat", tok |-> token, text |-> input,
                     snap |-> <<>>, ev |-> <<"append_user", "chat_issued">>]]
            /\ last' = Step("send", "call", "issued", Null, <<>>,
                            <<"append_user", "chat_issued">>)
    /\ UNCHANGED <<sessionVars, restored, pathname, calls, chatHistory,
                   showHistory, load, serverHistory>>

\* send from the arrival of the chat answer to its return or to the request
\* of loadChatHistory; `finally` clears loading when send returns.
ChatResponse(i, res) ==
    /\ UNCHANGED clock
    /\ sends[i].pc = "chat"
    /\ LET o == SendOutcome(res)
           ev == sends[i].ev \o <<"chat_response">>
                   \o [k \in 1..Len(o.append) |->
                         IF o.append[k] = ErrorMessage THEN "append_error"
                         ELSE "append_reply"]
                   \o [k \in 1..Len(o.nav) |-> "push_auth"]
                   \o (IF o.reload THEN <<"history_issued">>
                       ELSE <<"loading_cleared">>)
       IN  /\ messages' = messages \o o.append
           /\ Route(o.nav)
           /\ chatLoading' = IF o.reload THEN chatLoading
                             ELSE Finally(o.nav, chatLoading)
           /\ sends' = [sends EXCEPT ![i] =
                   IF o.reload THEN [@ EXCEPT !.pc = "history", !.ev = ev]
                   ELSE DoneSend]
           /\ last' = Step("send", "chat", ResClass(res), o.err, o.nav, ev)
    /\ serverHistory' = Persist(serverHistory, sends[i].text, res)
    /\ SetSession(SendSession(Session, res))
    /\ UNCHANGED <<restored, calls, input, chatHistory, showHistory, load>>

\* The remote service answers the history request of send i with its record
\* as it is now.
HistoryServed(i) ==
    /\ UNCHANGED <<clock, router>>
    /\ sends[i].pc = "history"
    /\ sends' = [sends EXCEPT ![i] =
            [@ EXCEPT !.pc = "history_reply", !.snap = HistoryBody(serverHistory)]]
    /\ last' = Step("server", "history", "none", Null, <<>>, <<>>)
    /\ UNCHANGED <<sessionVars, restored, pathname, calls, messages,
                   input, chatLoading, chatHistory, showHistory, load,
                   serverHistory>>

\* loadChatHistory of send i from the arrival of the history answer, and the
\* return of send.
HistoryResponse(i, res) ==
    /\ UNCHANGED <<clock, router>>
    /\ sends[i].pc = "history_reply"
    /\ LET r == LoadChatHistory(chatHistory, res, sends[i].snap)
           ev == sends[i].ev \o <<"history_done">>
                   \o (IF r.err # Null THEN <<"append_error">> ELSE <<>>)
                   \o <<"loading_cleared">>
       IN  /\ chatHistory' = r.history
           /\ messages' = IF r.err # Null THEN Append(messages, ErrorMessage)
                          ELSE messages
           /\ sends' = [sends EXCEPT ![i] = DoneSend]
           /\ last' = Step("send", "history", res, Null, <<>>, ev)
    /\ chatLoading' = Finally(<<>>, chatLoading)
    /\ load' = Answered(load, res, sends[i].snap)
    /\ UNCHANGED <<sessionVars, restored, pathname, calls, input,
                   showHistory, serverHistory>>

\* ChatPage's effect on [user, token, router]: without user or token it
\* pushes the sign-in view, else it calls loadChatHistory.  It runs on mount
\* and again whenever one of its dependencies changes identity; its calls are
\* taken one at a time.  The effect's load (ChatEffect, LoadServed,
\* LoadResponse) is kept out of NextChat, whose history loads are those of
\* send.
ChatEffect ==
    /\ UNCHANGED clock
    /\ ChatRendered
    /\ load.pc = "idle"
    /\ IF token = Null
       THEN /\ Route(<<"/auth">>)
            /\ last' = Step("chatEffect", "effect", "none", Null, <<"/auth">>, <<>>)
            /\ UNCHANGED load
       ELSE /\ load' = [load EXCEPT !.pc = "history", !.tok = token]
            /\ last' = Step("chatEffect", "effect", "issued", Null, <<>>, <<>>)
            /\ UNCHANGED <<pathname, router>>
    /\ UNCHANGED <<sessionVars, restored, calls, messages, input, chatLoading,
                   chatHistory, showHistory, sends, serverHistory>>

LoadServed ==
    /\ UNCHANGED <<clock, router>>
    /\ load.pc = "history"
    /\ load' = [load EXCEPT !.pc = "history_reply",
                            !.snap = HistoryBody(serverHistory)]
    /\ last' = Step("server", "history", "none", Null, <<>>, <<>>)
    /\ UNCHANGED <<sessionVars, restored, pathname, calls, messages,
                   input, chatLoading, chatHistory, showHistory, sends,
                   serverHistory>>

LoadResponse(res) ==
    /\ UNCHANGED <<clock, router>>
    /\ load.pc = "history_reply"
    /\ LET r == LoadChatHistory(chatHistory, res, load.snap)
       IN  /\ chatHistory' = r.history
           /\ last' = Step("loadHistory", "history", res, r.err, <<>>,
                           IF res = "ok" /\ load.has /\ load.prev = load.snap
                           THEN <<"repeat">> ELSE <<>>)
    /\ load' = [Answered(load, res, load.snap) EXCEPT
                    !.pc = "idle", !.tok = Null, !.snap = <<>>]
    /\ UNCHANGED <<sessionVars, restored, pathname, calls, messages, input,
                   chatLoading, showHistory, sends, serverHistory>>

\* The History button.
ToggleHistory ==
    /\ UNCHANGED <<clock, router>>
    /\ ChatRendered
    /\ showHistory' = ~showHistory
    /\ last' = Step("toggleHistory", "call", "none", Null, <<>>, <<>>)
    /\ UNCHANGED <<sessionVars, restored, pathname, calls, messages, input,
                   chatLoading, chatHistory, sends, load, serverHistory>>

WindowRadius == 5

\* The window around the entry at 0-based index idx.
HistoryWindow_ExclusiveEnd(h, idx) ==
    Slice(h, Max(0, idx - WindowRadius), Min(Len(h), idx + WindowRadius))

HistoryWindow(h, idx) ==
    Slice(h, Max(0, idx - WindowRadius), Min(Len(h), idx + WindowRadius + 1))

\* loadHistoryIntoChat: the transcript becomes the greeting and the window.
LoadHistoryIntoChat_NoGreeting(historyMessages) == historyMessages

LoadHistoryIntoChat(historyMessages) == <<Greeting>> \o historyMessages

\* onClick of the history entry at 0-based index idx.
WindowSelect(idx) ==
    /\ UNCHANGED <<clock, router>>
    /\ ChatRendered
    /\ showHistory
    /\ idx \in 0..(Len(chatHistory) - 1)
    /\ messages' = LoadHistoryIntoChat(HistoryWindow(chatHistory, idx))
    /\ showHistory' = FALSE
    /\ last' = Step("windowSelect", "call", "none", Null, <<>>, <<>>)
    /\ UNCHANGED <<sessionVars, restored, pathname, calls, input, chatLoading,
                   chatHistory, sends, load, serverHistory>>

-----------------------------------------------------------------------------
(* Conversation Manager: relative time *)

\* Times are in milliseconds, as Date.getTime gives them.  A label is the
\* number and the unit of the text formatTimestamp returns: `${n}` followed
\* by the unit for days, hours and minutes, and "Just now" without a number.
Label(n, unit) == [n |-> n, unit |-> unit]

NoLabel == Label(0, "none")

ClockIdle == [now |-> 0, date |-> 0, label |-> NoLabel]

\* formatTimestamp(date) at the time nowMs.
FormatTimestamp_HoursFirst(nowMs, dateMs) ==
    LET diff == nowMs - dateMs
        seconds == diff \div 1000
        minutes == seconds \div 60
        hours == minutes \div 60
        days == hours \div 24
    IN  IF hours > 0 THEN Label(hours, "h ago")
        ELSE IF days > 0 THEN Label(days, "d ago")
        ELSE IF minutes > 0 THEN Label(minutes, "m ago")
        ELSE Label(0, "Just now")

FormatTimestamp(nowMs, dateMs) ==
    LET diff == nowMs - dateMs
        seconds == diff \div 1000
        minutes == seconds \div 60
        hours == minutes \div 60
        days == hours \div 24
    IN  IF days > 0 THEN Label(days, "d ago")
        ELSE IF hours > 0 THEN Label(hours, "h ago")
        ELSE IF minutes > 0 THEN Label(minutes, "m ago")
        ELSE Label(0, "Just now")

\* A render of the conversation view formats the message's timestamp.
Render ==
    /\ ChatRendered
    /\ UNCHANGED router
    /\ clock' = [clock EXCEPT !.label = FormatTimestamp(clock.now, clock.date)]
    /\ last' = Step("formatTimestamp", "call", "none", Null, <<>>, <<>>)
    /\ UNCHANGED <<sessionVars, restored, pathname, calls, chatVars>>

\* Largest number of whole days between a timestamp and the render.
MaxDays == 2

\* Elapsed times, in seconds: around every boundary of a minute, an hour and
\* a day.
ElapsedSeconds ==
    {d * 86400 + h * 3600 + m * 60 + sec :
        d \in 0..MaxDays, h \in {0, 1, 23}, m \in {0, 1, 59}, sec \in {0, 1, 59}}

-----------------------------------------------------------------------------
(* Specifications *)

StoredPairs == {<<Null, Null>>} \cup {<<a, RefreshOf(a)>> : a \in AccessTokens}

\* The state after construction: useState's initial values, whatever an
\* earlier visit left in localStorage, and the view the browser was opened on.
Init ==
    /\ clock = ClockIdle
    /\ router = RouterAtOnce
    /\ user = Null
    /\ token = Null
    /\ loading = TRUE
    /\ \E st \in StoredPairs : access_token = st[1] /\ refresh_token = st[2]
    /\ restored = FALSE
    /\ pathname \in Paths
    /\ calls = [i \in Slots |-> Idle]
    /\ last = Step("init", "init", "none", Null, <<>>, <<>>)
    /\ ChatInit

Next ==
    \/ Restore
    \/ \E op \in {"login", "signup"} : Submit(op)
    \/ \E i \in Slots, res \in CredResponses : CredentialsResponse(i, res)
    \/ \E i \in Slots, res \in ProfileResponses : ProfileResponse(i, res)
    \/ Logout
    \/ GuardEffect
    \/ \E p \in Paths : Navigate(p)

Spec == Init /\ [][Next]_vars

\* The Session Store and the Route Guard with a router whose pushes commit
\* later: handlers and effects run between a push and the change of view.
InitNav ==
    /\ clock = ClockIdle
    /\ router = RouterDeferred
    /\ user = Null
    /\ token = Null
    /\ loading = TRUE
    /\ \E st \in StoredPairs : access_token = st[1] /\ refresh_token = st[2]
    /\ restored = FALSE
    /\ pathname \in Paths
    /\ calls = [i \in Slots |-> Idle]
    /\ last = Step("init", "init", "none", Null, <<>>, <<>>)
    /\ ChatInit

NextNav ==
    \/ Next
    \/ Commit

SpecNav == InitNav /\ [][NextNav]_vars

\* The Route Guard on every (user, loading, view), with the user's
\* navigations: the guard's inputs are drawn, not reached.
InitGuard ==
    /\ clock = ClockIdle
    /\ router = RouterAtOnce
    /\ user \in {Null} \cup Users
    /\ token \in {Null} \cup AccessTokens
    /\ loading \in BOOLEAN
    /\ access_token = Null
    /\ refresh_token = Null
    /\ restored = TRUE
    /\ pathname \in Paths
    /\ calls = [i \in Slots |-> Idle]
    /\ last = Step("init", "init", "none", Null, <<>>, <<>>)
    /\ ChatInit

NextGuard ==
    \/ GuardEffect
    \/ \E p \in Paths : Navigate(p)

SpecGuard == InitGuard /\ [][NextGuard]_vars

\* The Conversation Manager under a session that stays as it is: a signed-in
\* user on the conversation view, with the in-memory token, or without it
\* (the state user-without-token is one the Session Store reaches).
InitChat ==
    /\ clock = ClockIdle
    /\ router = RouterAtOnce
    /\ user = "u1"
    /\ token \in {"a1", Null}
    /\ loading = FALSE
    /\ access_token = token
    /\ refresh_token = (IF token = Null THEN Null ELSE RefreshOf(token))
    /\ restored = TRUE
    /\ pathname = "/chat"
    /\ calls = [i \in Slots |-> Idle]
    /\ last = Step("init", "init", "none", Null, <<>>, <<>>)
    /\ ChatInit

NextChat ==
    \/ \E t \in Inputs : SetInput(t)
    \/ Send
    \/ \E i \in SendSlots, res \in ChatResponses : ChatResponse(i, res)
    \/ \E i \in SendSlots : HistoryServed(i)
    \/ \E i \in SendSlots, res \in HistoryResponses : HistoryResponse(i, res)
    \/ ToggleHistory
    \/ \E idx \in 0..(2 * MaxSends) : WindowSelect(idx)

SpecChat == InitChat /\ [][NextChat]_vars

\* The Conversation Manager with a service that answers every chat and
\* history request successfully: the round trips of send all succeed, and
\* only their interleaving varies.
ChatOk ==
    [kind |-> "response", status |-> 200, json |-> TRUE, answer |-> Answer,
     sources |-> <<"url">>]

NextReload ==
    \/ \E t \in Inputs : SetInput(t)
    \/ Send
    \/ \E i \in SendSlots : ChatResponse(i, ChatOk)
    \/ \E i \in SendSlots : HistoryServed(i)
    \/ \E i \in SendSlots : HistoryResponse(i, "ok")

SpecReload == InitChat /\ [][NextReload]_vars

\* loadChatHistory under both of its callers, the effect and send, with
\* every answer of the history endpoint; the chat requests succeed.
NextLoad ==
    \/ ChatEffect
    \/ LoadServed
    \/ \E res \in HistoryResponses : LoadResponse(res)
    \/ \E t \in Inputs : SetInput(t)
    \/ Send
    \/ \E i \in SendSlots : ChatResponse(i, ChatOk)
    \/ \E i \in SendSlots : HistoryServed(i)
    \/ \E i \in SendSlots, res \in HistoryResponses : HistoryResponse(i, res)

SpecLoad == InitChat /\ [][NextLoad]_vars

\* The three components together: the application opened on the
\* conversation view, the Session Store restoring the session, the Route
\* Guard, the Conversation Manager, and logout.  The user types one text and
\* sends again only when the earlier sends have returned.
NoSendInFlight == \A i \in SendSlots : sends[i].pc \in {"idle", "done"}

SendAfterReturn ==
    /\ NoSendInFlight
    /\ Send

InitApp ==
    /\ Init
    /\ pathname = "/chat"

NextApp ==
    \/ Restore
    \/ \E i \in Slots, res \in ProfileResponses : ProfileResponse(i, res)
    \/ Logout
    \/ GuardEffect
    \/ ChatEffect
    \/ LoadServed
    \/ \E res \in HistoryResponses : LoadResponse(res)
    \/ SetInput(<<" ", "h">>)
    \/ SendAfterReturn
    \/ \E i \in SendSlots, res \in ChatResponses : ChatResponse(i, res)
    \/ \E i \in SendSlots : HistoryServed(i)
    \/ \E i \in SendSlots, res \in HistoryResponses : HistoryResponse(i, res)
    \/ ToggleHistory
    \/ \E idx \in 0..(2 * MaxSends) : WindowSelect(idx)

SpecApp == InitApp /\ [][NextApp]_vars

\* Relative time: a message whose timestamp lies any of ElapsedSeconds
\* seconds, and a fraction of a second, before the render.
InitTime ==
    /\ router = RouterAtOnce
    /\ \E s \in ElapsedSeconds, ms \in {0, 999}, t \in {0, 250} :
          clock = [now |-> t + s * 1000 + ms, date |-> t, label |-> NoLabel]
    /\ user = "u1"
    /\ token = "a1"
    /\ loading = FALSE
    /\ access_token = token
    /\ refresh_token = RefreshOf(token)
    /\ restored = TRUE
    /\ pathname = "/chat"
    /\ calls = [i \in Slots |-> Idle]
    /\ last = Step("init", "init", "none", Null, <<>>, <<>>)
    /\ ChatInit

NextTime == Render

SpecTime == InitTime /\ [][NextTime]_vars

\* Length of the longest persisted history of a run of SpecWindow: more than
\* 2 * WindowRadius + 1, so that a window can be clamped at neither end.
MaxHistory == 13

\* A record of n persisted messages, oldest first.
ServerRecord(n) ==
    [k \in 1..n |->
        Message(k, IF k % 2 = 1 THEN "user" ELSE "assistant", <<"h">>, <<>>)]

\* History browsing: the conversation view after loadChatHistory has loaded a
\* record of any length up to MaxHistory.
InitWindow ==
    /\ clock = ClockIdle
    /\ router = RouterAtOnce
    /\ user = "u1"
    /\ token = "a1"
    /\ loading = FALSE
    /\ access_token = token
    /\ refresh_token = RefreshOf(token)
    /\ restored = TRUE
    /\ pathname = "/chat"
    /\ calls = [i \in Slots |-> Idle]
    /\ last = Step("init", "init", "none", Null, <<>>, <<>>)
    /\ messages = <<Greeting>>
    /\ input = <<>>
    /\ chatLoading = FALSE
    /\ \E n \in 0..MaxHistory :
          /\ serverHistory = ServerRecord(n)
          /\ chatHistory = LoadedHistory(HistoryBody(ServerRecord(n)))
    /\ showHistory = FALSE
    /\ sends = [i \in SendSlots |-> IdleSend]
    /\ load = IdleLoad

NextWindow ==
    \/ ToggleHistory
    \/ \E idx \in 0..(MaxHistory - 1) : WindowSelect(idx)

SpecWindow == InitWindow /\ [][NextWindow]_vars

-----------------------------------------------------------------------------
(* Properties of the Session Store *)

IsPrefix(a, b) == Len(a) <= Len(b) /\ a = SubSeq(b, 1, Len(a))

\* C1: in every reachable state, user is non-null only if the in-memory
\* access token is non-null.
C1_UserOnlyWithToken == user # Null => token # Null

\* The order of the events of a successful login or signup.
LoginOrder ==
    <<"credentials_issued", "setItem_access", "setItem_refresh", "setToken",
      "fetchProfile_issued", "fetchProfile_done", "push_chat">>

LoginLogs ==
    {calls[i].ev : i \in {j \in Slots : calls[j].op \in {"login", "signup"}}}
    \cup (IF last.op \in {"login", "signup"} THEN {last.ev} ELSE {})

\* C2: the events of every login and signup occur in the order: both tokens
\* persisted, the in-memory token set, the profile fetch issued, the profile
\* fetch completed, the push of /chat; and a login or signup segment pushes
\* /chat only in the segment that follows the completed profile fetch.
C2_LoginOrder ==
    /\ \A ev \in LoginLogs : IsPrefix(ev, LoginOrder)
    /\ (last.op \in {"login", "signup"} /\ last.nav # <<>>) =>
            (last.phase = "profile" /\ last.nav = <<"/chat">>)

C2_Witness ==
    /\ last.op \in {"login", "signup"}
    /\ last.ev = LoginOrder
    /\ pathname = "/chat"

\* C3: a logout step leaves user, the in-memory token and both persisted
\* tokens absent, pushes the sign-in view and issues no request (the calls in
\* flight are the same before and after).
C3_Logout ==
    [][last'.op = "logout" =>
          /\ user' = Null /\ token' = Null
          /\ access_token' = Null /\ refresh_token' = Null
          /\ last'.nav = <<"/auth">> /\ pathname' = "/auth"
          /\ calls' = calls /\ sends' = sends]_vars

C3_Witness ==
    /\ last.op = "logout"
    /\ \E i \in Slots : calls[i].pc = "profile"

\* C4: when the profile request of restore is answered with a non-success
\* status, restore ends with user absent, the in-memory token absent, both
\* persisted tokens removed and loading false.
C4_RestoreRejected ==
    (last.op = "restore" /\ last.phase = "profile" /\ last.outcome = "rejected")
        => /\ user = Null /\ token = Null
           /\ access_token = Null /\ refresh_token = Null
           /\ loading = FALSE

C4_Witness ==
    last.op = "restore" /\ last.phase = "profile" /\ last.outcome = "rejected"

\* C5: a login or signup whose credential request gets a non-success response
\* throws an error whose message is the server's detail, or the generic
\* fallback when there is none, and changes nothing: user, token, both
\* persisted tokens and the view are as before, no profile fetch is issued and
\* nothing is pushed.
C5_RejectedCredentials ==
    [][(last'.phase = "credentials" /\ last'.outcome = "rejected") =>
          /\ last'.err \in (Details \ {Null, ""}) \cup {Fallback(last'.op)}
          /\ UNCHANGED sessionVars
          /\ pathname' = pathname /\ last'.nav = <<>>
          /\ \A i \in Slots : calls'[i].pc = "profile" => calls'[i] = calls[i]]_vars

\* C6: every fetchProfile leaves loading false when it completes, whatever the
\* outcome; so once restore has run and its profile request is no longer in
\* flight, loading is false.
C6_LoadingCleared ==
    /\ last.phase = "profile" => loading = FALSE
    /\ (restored /\ \A i \in Slots : calls[i].op # "restore") => loading = FALSE

C6_Witness ==
    last.op = "restore" /\ last.phase = "profile" /\ last.outcome = "throw"

-----------------------------------------------------------------------------
(* Properties of the Route Guard *)

\* C7: the guard pushes nothing while loading; otherwise it pushes the sign-in
\* view exactly when user is absent on a protected view, the default protected
\* view "/" exactly when user is present on the sign-in view, and nothing in
\* the two remaining cases.
C7_GuardTable ==
    [][last'.op = "guard" =>
          /\ loading => last'.nav = <<>>
          /\ ~loading =>
                /\ last'.nav = <<"/auth">> <=> (user = Null /\ pathname # "/auth")
                /\ last'.nav = <<"/">> <=> (user # Null /\ pathname = "/auth")
                /\ last'.nav = <<>> <=>
                       \/ user # Null /\ pathname # "/auth"
                       \/ user = Null /\ pathname = "/auth"
          /\ pathname' = (IF last'.nav = <<>> THEN pathname ELSE last'.nav[1])]_vars

C7_Witness ==
    /\ last.op = "guard" /\ last.nav = <<>>
    /\ loading /\ user # Null /\ pathname = "/auth"

-----------------------------------------------------------------------------
(* Properties of the Conversation Manager *)

SendStep(phase) == last'.op = "send" /\ last'.phase = phase

\* No history request is issued by the step.
NoReloadIssued ==
    /\ load' = load
    /\ \A i \in SendSlots : sends'[i].pc = "history" => sends'[i] = sends[i]

\* C8: when the chat request of a send is answered 401, send pushes the
\* sign-in view and stops: the transcript, with the optimistic user message,
\* is as it was, no assistant message is appended, and no history reload is
\* issued.
C8_Unauthorized ==
    [][(SendStep("chat") /\ last'.outcome = "401") =>
          /\ last'.nav = <<"/auth">> /\ pathname' = "/auth"
          /\ messages' = messages
          /\ chatHistory' = chatHistory
          /\ NoReloadIssued]_vars

C8_Witness ==
    /\ last.op = "send" /\ last.phase = "chat" /\ last.outcome = "401"
    /\ messages[Len(messages)] = UserMessage(<<" ", "h">>)
    /\ pathname = "/auth"

\* C9: when the chat request of a send fails in any way other than a 401 (a
\* failed fetch, a body that does not parse, a non-success status other than
\* 401), exactly one synthetic assistant error message is appended to the
\* transcript and no error propagates out of send.
C9_FailureAppendsError ==
    [][(SendStep("chat") /\
        last'.outcome \in {"throw", "200_nojson", "500_json", "500_nojson"}) =>
          /\ messages' = Append(messages, ErrorMessage)
          /\ last'.err = Null]_vars

AllWhitespace(t) == \A k \in 1..Len(t) : t[k] \in Whitespace

\* C10: send is a no-op when the input is empty or white space only, or when
\* there is no access token: the transcript, the loading flag and the input
\* are unchanged and no request is issued.
C10_SendNoop ==
    [][(SendStep("call") /\ (AllWhitespace(input) \/ token = Null)) =>
          /\ last'.outcome = "noop"
          /\ messages' = messages
          /\ chatLoading' = chatLoading
          /\ input' = input
          /\ sends' = sends /\ load' = load /\ calls' = calls]_vars

C10_Witness ==
    /\ last.op = "send" /\ last.phase = "call" /\ last.outcome = "noop"
    /\ input = <<" ", " ">>
    /\ token # Null

\* The orders in which one send call produces its events: with a reply, with
\* the error message of catch, and with the 401 return.
SendOrders ==
    {<<"append_user", "chat_issued", "chat_response", "append_reply",
       "history_issued", "history_done", "loading_cleared">>,
     <<"append_user", "chat_issued", "chat_response", "append_error",
       "loading_cleared">>,
     <<"append_user", "chat_issued", "chat_response", "push_auth",
       "loading_cleared">>}

\* The event logs of the send calls in flight and of the send segment that
\* ran last.
SendLogs ==
    {sends[i].ev : i \in {j \in SendSlots : sends[j].pc \notin {"idle", "done"}}}
    \cup (IF last.op = "send" THEN {last.ev} ELSE {})

\* C11: the events of every send call occur in order: the optimistic user
\* message is appended before the chat request is issued; the response comes
\* before the reply or the error message is appended; with a reply, the
\* history reload is issued only after the reply is appended, and loading is
\* cleared only after the reload has completed.
C11_SendOrder ==
    \A ev \in SendLogs : \E o \in SendOrders : IsPrefix(ev, o)

C11_Witness ==
    /\ last.op = "send" /\ last.phase = "history"
    /\ last.ev = <<"append_user", "chat_issued", "chat_response", "append_reply",
                   "history_issued", "history_done", "loading_cleared">>
    /\ \E k \in 2..Len(messages) :
          messages[k - 1].role = "user" /\ messages[k] = ReplyMessage([answer |-> Answer, sources |-> <<"url">>])
    /\ ~chatLoading

\* No send and no history request is in flight.
Quiescent ==
    /\ \A i \in SendSlots : sends[i].pc \in {"idle", "done"}
    /\ load.pc = "idle"

\* C12: once every send and history request in flight has completed, the
\* loaded history is the server's record, oldest first, also when sends
\* overlap and their history responses arrive out of issue order.
C12_HistoryConsistent ==
    Quiescent => chatHistory = LoadedHistory(HistoryBody(serverHistory))

\* The bounds of the window around the 0-based anchor of a history of length n.
WindowStart(anchor) == Max(0, anchor - WindowRadius)

WindowEnd(n, anchor) == Min(n, anchor + WindowRadius + 1)

\* The elements of h at the 0-based indices lo .. hi-1, in their order.
ElementsAt(h, lo, hi) == [k \in 1..(hi - lo) |-> h[lo + k]]

\* C13: for every anchor of the loaded history, the window is exactly the
\* elements at the indices [max(0, anchor-5), min(L, anchor+6)) in their
\* order, of that length, every index inside the history; and selecting a
\* history entry makes the transcript the greeting followed by the window of
\* an anchor of the history.
C13_Window ==
    /\ \A anchor \in 0..(Len(chatHistory) - 1) :
          LET lo == WindowStart(anchor)
              hi == WindowEnd(Len(chatHistory), anchor)
              w == HistoryWindow(chatHistory, anchor)
          IN  /\ 0 <= lo /\ lo < hi /\ hi <= Len(chatHistory)
              /\ Len(w) = hi - lo
              /\ w = ElementsAt(chatHistory, lo, hi)
    /\ last.op = "windowSelect" =>
          \E anchor \in 0..(Len(chatHistory) - 1) :
              messages = <<Greeting>> \o
                  ElementsAt(chatHistory, WindowStart(anchor),
                             WindowEnd(Len(chatHistory), anchor))

\* A window clamped at neither end: entries 2..12 of a history of 13.
C13_Witness ==
    /\ last.op = "windowSelect"
    /\ Len(chatHistory) = 13
    /\ Len(messages) = 12
    /\ messages[2].id = 2 /\ messages[12].id = 12

\* C14: in every reachable state of the Conversation Manager the transcript
\* begins with the synthetic assistant greeting, which has no id; the query of
\* every chat request in flight is a text the user typed, never the greeting,
\* and no entry of the persisted or the loaded history is the greeting.
C14_GreetingFirst ==
    /\ Len(messages) >= 1
    /\ messages[1] = Greeting
    /\ messages[1].id = NoId /\ messages[1].role = "assistant"
    /\ \A i \in SendSlots : sends[i].pc = "chat" =>
          sends[i].text \in Inputs /\ sends[i].text # Greeting.content
    /\ \A k \in 1..Len(serverHistory) : serverHistory[k].id # NoId
    /\ \A k \in 1..Len(chatHistory) : chatHistory[k] # Greeting

\* A window of loaded history has replaced a transcript that held an
\* exchange.
C14_Witness ==
    /\ last.op = "windowSelect"
    /\ Len(messages) > 1
    /\ messages[1] = Greeting
    /\ \E i \in SendSlots : sends[i].pc = "chat"

\* A step in which a loadChatHistory call, of the effect or of a send,
\* receives its answer.
LoadStep == last'.op \in {"loadHistory", "send"} /\ last'.phase = "history"

\* The ids of h increase: h is oldest first.
OldestFirst(h) == \A k \in 1..(Len(h) - 1) : h[k].id < h[k + 1].id

\* C15: a successful loadHistory sets the loaded history to the entries of the
\* newest-first response in the opposite order, oldest first; and a load whose
\* response is the one the previous successful load received (no send in
\* between, the server's record unchanged) leaves the loaded history as that
\* load left it.
C15_LoadIdempotent ==
    [][(LoadStep /\ last'.outcome = "ok") =>
          LET body == load'.prev
          IN  /\ Len(chatHistory') = Len(body)
              /\ \A k \in 1..Len(body) :
                    /\ chatHistory'[k].id = body[Len(body) + 1 - k].id
                    /\ chatHistory'[k].role = body[Len(body) + 1 - k].role
                    /\ chatHistory'[k].content = body[Len(body) + 1 - k].content
              /\ OldestFirst(chatHistory')
              /\ (load.has /\ load.prev = body) => chatHistory' = chatHistory]_vars

\* A second load in succession, of a record that holds an exchange.
C15_Witness ==
    /\ last.op = "loadHistory" /\ last.outcome = "ok"
    /\ last.ev = <<"repeat">>
    /\ Len(chatHistory) >= 2
    /\ chatHistory = LoadedHistory(HistoryBody(serverHistory))

\* C16: a loadHistory whose request fails, by a failed fetch or a non-success
\* status, leaves the loaded history and the transcript as they were and
\* throws nothing; called from send, it makes send append no error message.
C16_LoadFailureSilent ==
    [][(LoadStep /\ last'.outcome \in {"rejected", "throw"}) =>
          /\ chatHistory' = chatHistory
          /\ messages' = messages
          /\ last'.err = Null
          /\ \A k \in 1..Len(last'.ev) : last'.ev[k] # "append_error"]_vars

\* The reload of a send fails after an earlier load had succeeded.
C16_Witness ==
    /\ last.op = "send" /\ last.phase = "history" /\ last.outcome = "throw"
    /\ Len(chatHistory) >= 2
    /\ messages[Len(messages)].role = "assistant"
    /\ messages[Len(messages)] # ErrorMessage

\* The step is the last one of a send call: the call returns.
SendReturns ==
    \E i \in SendSlots :
        sends[i].pc \in {"chat", "history_reply"} /\ sends'[i].pc = "done"

\* C18: every send call that issued its chat request clears the loading
\* indicator when it returns, whatever the answer was (a reply and its
\* reload, a 401, a failure); with no send call in flight the indicator is
\* off.
C18_ChatLoadingCleared ==
    [][/\ SendReturns => chatLoading' = FALSE
       /\ (\A i \in SendSlots : sends'[i].pc \in {"idle", "done"}) =>
             chatLoading' = FALSE]_vars

\* Both sends have returned, the last one on a 401.
C18_Witness ==
    /\ last.op = "send" /\ last.phase = "chat" /\ last.outcome = "401"
    /\ \A i \in SendSlots : sends[i].pc = "done"
    /\ ~chatLoading

-----------------------------------------------------------------------------
(* Further properties of the Session Store *)

\* C17: a fetchProfile whose request throws propagates no error, leaves
\* user, the in-memory token and both persisted tokens as they were before
\* the response, and sets loading to false.
C17_ProfileThrow ==
    [][(last'.phase = "profile" /\ last'.outcome = "throw") =>
          /\ user' = user /\ token' = token
          /\ access_token' = access_token /\ refresh_token' = refresh_token
          /\ loading' = FALSE
          /\ last'.err = Null]_vars

\* The profile fetch of a login throws: the tokens stay, no user is set.
C17_Witness ==
    /\ last.op = "login" /\ last.phase = "profile" /\ last.outcome = "throw"
    /\ user = Null
    /\ token # Null /\ access_token = token /\ refresh_token = RefreshOf(token)
    /\ ~loading

\* The operations of the Session Store, as `last` names them; fetchProfile
\* is the "profile" phase of restore, login and signup.
SessionOps == {"restore", "login", "signup", "logout"}

\* C19: only steps of Session Store operations change user, the in-memory
\* token, loading or the persisted tokens: no evaluation of the Route Guard
\* and no step of the Conversation Manager (send with any answer,
\* loadHistory, history windowing) changes any of them.
C19_SessionFrame ==
    [][last'.op \notin SessionOps =>
          /\ user' = user /\ token' = token /\ loading' = loading
          /\ access_token' = access_token
          /\ refresh_token' = refresh_token]_vars

\* A send answered 401 has pushed the sign-in view; the session is whole.
C19_Witness ==
    /\ last.op = "send" /\ last.outcome = "401"
    /\ pathname = "/auth"
    /\ user # Null /\ token # Null
    /\ access_token = token /\ refresh_token = RefreshOf(token)

-----------------------------------------------------------------------------
(* Properties of relative-time formatting *)

\* The whole seconds between the timestamp and the render.
Elapsed == (clock.now - clock.date) \div 1000

\* C20: an elapsed time of s whole seconds is formatted in the coarsest unit
\* that is not zero: s div 86400 days from one day on, else s div 3600 hours
\* from one hour on, else s div 60 minutes from one minute on, else "Just
\* now"; 90000 seconds give "1d ago".
C20_RelativeTime ==
    clock.label # NoLabel =>
        /\ Elapsed >= 86400 => clock.label = Label(Elapsed \div 86400, "d ago")
        /\ (Elapsed >= 3600 /\ Elapsed < 86400) =>
              clock.label = Label(Elapsed \div 3600, "h ago")
        /\ (Elapsed >= 60 /\ Elapsed < 3600) =>
              clock.label = Label(Elapsed \div 60, "m ago")
        /\ Elapsed < 60 => clock.label = Label(0, "Just now")
        /\ Elapsed = 90000 => clock.label = Label(1, "d ago")

C20_Witness ==
    /\ last.op = "formatTimestamp"
    /\ Elapsed = 90000
    /\ clock.label = Label(1, "d ago")

-----------------------------------------------------------------------------
(* Overlapping sends, window selection during a send, token agreement *)

\* The send calls that have issued their chat request and not returned.
SendsInFlight ==
    {i \in SendSlots : sends[i].pc \in {"chat", "history", "history_reply"}}

\* C23: the chat loading indicator is true whenever at least one send is in
\* flight, also when a second send was started while an earlier one was
\* pending: the return of one send does not clear the indicator while another
\* is unresolved.
C23_LoadingWhileInFlight ==
    SendsInFlight # {} => chatLoading

\* The step appends the assistant reply or the error message of send i to
\* the transcript.
Resolves(i) ==
    /\ last'.op = "send" /\ last'.phase = "chat"
    /\ sends[i].pc = "chat" /\ sends'[i].pc # "chat"
    /\ Len(messages') = Len(messages) + 1

\* C24: when the reply or the error message of a send is appended, the
\* transcript holds that send's optimistic user message ahead of it, also
\* when a history window replaced the transcript while the request was in
\* flight.
C24_TentativeKept ==
    [][\A i \in SendSlots : Resolves(i) =>
          \E k \in 1..Len(messages) :
              messages'[k] = UserMessage(sends[i].text)]_vars

\* C25: in every state after restore has run, whatever the interleaving of
\* login, signup, logout and profile completions, the in-memory token and the
\* persisted access_token are both absent or hold the same value, and
\* refresh_token is persisted exactly when access_token is.
C25_TokensAgree ==
    restored =>
        /\ token = access_token
        /\ (refresh_token # Null) <=> (access_token # Null)

\* Two logins overlapped: the second stored a2 over a1 while the profile
\* fetch of the first was pending.
C25_Witness ==
    /\ restored
    /\ token = "a2" /\ access_token = "a2" /\ refresh_token = RefreshOf("a2")
    /\ \E i \in Slots : calls[i].pc = "profile" /\ calls[i].tok = "a1"

-----------------------------------------------------------------------------
(* Redirects after a 401 and after a login *)

\* C21: after a send answered 401 has pushed the sign-in view, the Route
\* Guard signals no redirect away from it: the guard evaluation that follows
\* pushes nothing and the client stays at the sign-in view.
C21_StaysAtSignIn ==
    [][(/\ last.op = "send" /\ last.outcome = "401"
        /\ pathname = "/auth"
        /\ last'.op = "guard") =>
          /\ last'.nav = <<>>
          /\ pathname' = "/auth"]_vars

\* C22: after a login or signup issued from the sign-in view has succeeded
\* (profile fetched, user present), the navigation it signals is to /chat and
\* the Route Guard, evaluated while the sign-in view is still the current
\* view, signals no redirect to another view.
C22_LoginNavigation ==
    [][(/\ last.op \in {"login", "signup"}
        /\ last.phase = "profile" /\ last.outcome = "ok"
        /\ last.nav = <<"/chat">>
        /\ pathname = "/auth"
        /\ last'.op = "guard") =>
          last'.nav = <<>> \/ last'.nav = <<"/chat">>]_vars

=============================================================================
